---- MODULE Spec2Model ----
(***************************************************************************)
(* Model of the six single-run patch scripts of tina-ai-marketing:         *)
(*   add-revenue-router.py, fix-categories.py, add_helpers.py,             *)
(*   edit-chat.py, add-suggestions-state.py, rename-components.py.         *)
(*                                                                         *)
(* A file on disk is a sequence of tokens.  A token is either a line       *)
(* terminator as stored on disk ("\n", "\r\n", "\r") or a piece of text    *)
(* that holds no line terminator.  The literals of the scripts are cut     *)
(* into tokens so that every "}" and every run of blanks the regular       *)
(* expression of edit-chat.py can stop at is a token of its own; equality  *)
(* and containment of strings are then equality and containment of token   *)
(* sequences.  A file never holds "\r" directly followed by "\n" (that is  *)
(* the single token "\r\n").                                               *)
(***************************************************************************)
EXTENDS Integers, Sequences, FiniteSets, TLC

VARIABLES
    platform,   \* "posix" or "nt": decides os.linesep of the interpreter
    script,     \* script[p]: the script process p runs
    orig,       \* the target file before any run (the document D)
    file,       \* the target file on disk
    pc,         \* pc[p]: where process p stands in its script
    content,    \* content[p]: the script's text buffer (content / content_new)
    lines,      \* lines[p]: the list of lines of add-suggestions-state.py
    out,        \* out[p]: what the current run has printed so far
    applied,    \* applied[p]: the edits of the current run whose locator matched
    present,    \* present[p]: the locators found in the buffer when the run looked
    runs,       \* runs[p]: how many more times process p's script will be started
    overlap,    \* TRUE once a run has read the file while another run was under way
    runlog      \* one record per finished run, in order of finishing

vars == <<platform, script, orig, file, pc, content, lines, out, applied,
          present, runs, overlap, runlog>>

(***************************************************************************)
(* Bounds of the model.                                                    *)
(***************************************************************************)
MaxPieces == 3      \* an initial document is made of at most this many pieces
MaxRuns == 2        \* a script is run at most this many times in a row
Slack == 1          \* dashboard documents have up to Slack lines, or insert_at +- Slack

Procs == {1, 2}

Min(a, b) == IF a < b THEN a ELSE b

(***************************************************************************)
(* Text-mode file I/O of Python (open(...,'r') / open(...,'w') with the    *)
(* default newline=None).                                                  *)
(***************************************************************************)
LF == "\n"
CRLF == "\r\n"
CR == "\r"

\* Reading translates every "\r\n" and every lone "\r" to "\n".
Decode(bytes) ==
    [k \in 1..Len(bytes) |-> IF bytes[k] \in {CRLF, CR} THEN LF ELSE bytes[k]]

linesep(plat) == IF plat = "nt" THEN CRLF ELSE LF

\* Writing translates every "\n" of the text to os.linesep.
Encode(text, plat) ==
    [k \in 1..Len(text) |-> IF text[k] = LF THEN linesep(plat) ELSE text[k]]

\* A file in the canonical token form.
Canonical(bytes) ==
    \A k \in 1..Len(bytes) - 1 : ~(bytes[k] = CR /\ bytes[k + 1] = LF)

(***************************************************************************)
(* str operations of Python on token sequences.                            *)
(***************************************************************************)
\* The start positions at which old occurs in s.
Matches(s, old) ==
    {k \in 1..(Len(s) - Len(old) + 1) : SubSeq(s, k, k + Len(old) - 1) = old}

\* old in s
Occurs(old, s) == Matches(s, old) # {}

\* some token among toks occurs in s (a needle that lies inside those tokens)
HasToken(toks, s) == \E k \in 1..Len(s) : s[k] \in toks

\* Number of tokens of s that are among toks.
CountTokens(toks, s) == Cardinality({k \in 1..Len(s) : s[k] \in toks})

\* s.replace(old, new) from position pos on: the leftmost occurrence at or
\* after pos is replaced and the scan goes on behind it.
RECURSIVE StrReplaceFrom(_, _, _, _)
StrReplaceFrom(s, old, new, pos) ==
    LET ms == {k \in Matches(s, old) : k >= pos}
    IN  IF ms = {}
        THEN SubSeq(s, pos, Len(s))
        ELSE LET k == CHOOSE m \in ms : \A m2 \in ms : m <= m2
             IN  SubSeq(s, pos, k - 1) \o new
                    \o StrReplaceFrom(s, old, new, k + Len(old))

StrReplace(s, old, new) == StrReplaceFrom(s, old, new, 1)

\* Number of non-overlapping occurrences of old in s, scanning from pos.
RECURSIVE CountFrom(_, _, _)
CountFrom(s, old, pos) ==
    LET ms == {k \in Matches(s, old) : k >= pos}
    IN  IF ms = {} THEN 0
        ELSE LET k == CHOOSE m \in ms : \A m2 \in ms : m <= m2
             IN  1 + CountFrom(s, old, k + Len(old))

Count(s, old) == CountFrom(s, old, 1)

\* s.split('\n'): the pieces between the "\n" tokens (always at least one).
RECURSIVE Split(_)
Split(s) ==
    IF Len(s) = 0 THEN << <<>> >>
    ELSE IF Len(s) = 1 THEN (IF s[1] = LF THEN << <<>>, <<>> >> ELSE << s >>)
    ELSE LET h == Len(s) \div 2
             L == Split(SubSeq(s, 1, h))
             R == Split(SubSeq(s, h + 1, Len(s)))
         IN  SubSeq(L, 1, Len(L) - 1) \o << L[Len(L)] \o R[1] >> \o Tail(R)

\* '\n'.join(l)
RECURSIVE Join(_)
Join(l) ==
    IF Len(l) = 0 THEN <<>>
    ELSE IF Len(l) = 1 THEN l[1]
    ELSE LET h == Len(l) \div 2
         IN  Join(SubSeq(l, 1, h)) \o <<LF>> \o Join(SubSeq(l, h + 1, Len(l)))

\* f.readlines(): the lines of the text, each with its "\n"; only the last
\* line may lack one.
RECURSIVE ReadLines(_)
ReadLines(s) ==
    IF Len(s) = 0 THEN <<>>
    ELSE IF Len(s) = 1 THEN << s >>
    ELSE LET h == Len(s) \div 2
             L == ReadLines(SubSeq(s, 1, h))
             R == ReadLines(SubSeq(s, h + 1, Len(s)))
         IN  IF s[h] = LF
             THEN L \o R
             ELSE SubSeq(L, 1, Len(L) - 1) \o << L[Len(L)] \o R[1] >> \o Tail(R)

\* f.writelines(l): the lines one after the other, nothing added.
RECURSIVE WriteLines(_)
WriteLines(l) ==
    IF Len(l) = 0 THEN <<>>
    ELSE IF Len(l) = 1 THEN l[1]
    ELSE LET h == Len(l) \div 2
         IN  WriteLines(SubSeq(l, 1, h)) \o WriteLines(SubSeq(l, h + 1, Len(l)))

\* The insertion one place too far (behind item i instead of before it).
ListInsertOffByOne(l, i, x) ==
    LET k == Min(i + 1, Len(l))
    IN  SubSeq(l, 1, k) \o <<x>> \o SubSeq(l, k + 1, Len(l))

\* list.insert(i, x) for i >= 0: an index past the end appends.
ListInsert(l, i, x) ==
    LET k == Min(i, Len(l))
    IN  SubSeq(l, 1, k) \o <<x>> \o SubSeq(l, k + 1, Len(l))

\* All concatenations of at most n pieces.
RECURSIVE Concats(_, _)
Concats(pieces, n) ==
    IF n = 0 THEN { <<>> }
    ELSE LET shorter == Concats(pieces, n - 1)
         IN  shorter \cup {d \o q : d \in shorter, q \in pieces}

(***************************************************************************)
(* add-revenue-router.py: the literals.                                    *)
(***************************************************************************)
IMP_SEARCHADS == "import searchAdsRouter from \"./api/searchAds.js\";"
IMP_STORAGE == "import storageService"
IMP_REVENUE == "import revenueRouter from \"./api/revenue.js\";"
ROUTE_SEARCHADS == "app.use(\"/api/searchAds\", searchAdsRouter);"
ROUTE_REVENUE == "app.use(\"/api/revenue\", revenueRouter);"

old_import == <<IMP_SEARCHADS, LF, IMP_STORAGE>>
new_import == <<IMP_SEARCHADS, LF, IMP_REVENUE, LF, IMP_STORAGE>>
old_route == <<ROUTE_SEARCHADS>>
new_route == <<ROUTE_SEARCHADS, LF, ROUTE_REVENUE>>

RevenueSuccess == "Added revenue router to server.js"

(***************************************************************************)
(* fix-categories.py: the literals.                                        *)
(***************************************************************************)
CAT_ROMANCE == "category: 'romance'"
CAT_CONTEMPORARY == "category: 'Contemporary'"
CAT_DRAMA == "category: 'drama'"
CAT_BILLIONAIRE == "category: 'Billionaire'"

CategoriesSuccess == "Fixed all category values"

(***************************************************************************)
(* add_helpers.py: the literals.  The helper block is the text of lines    *)
(* 12-124; one token stands for its lines 14-121, which hold none of the   *)
(* strings any script looks for.                                           *)
(***************************************************************************)
marker == << "  const handleVideoPreview = (post) => {" >>

helper_code ==
    << LF, "  // Helper function to format scheduled time with countdown", LF,
       "  const formatScheduledTime = (dateString) => { ... return () => clearInterval(interval);",
       LF, "  }, [selectedVideo]);", LF, LF >>

HelpersSuccess == "Helper functions added successfully"
HelpersFailure == "Marker not found"

(***************************************************************************)
(* edit-chat.py: the literals.  Blanks next to a "}" and the indentation   *)
(* of each line are tokens of their own.                                   *)
(***************************************************************************)
I4 == "    "
I6 == "      "
I8 == "        "
SP == " "
CLOSE == "}"
SC_OPEN == "savedConversation = {"
CREATE_TODOS == "createTodosFromAIRecommendations"
AUTO_MENTION == "autoCreatedTodos"

\* The tokens \s matches.
Blank == {LF, SP, I4, I6, I8}

\* 'import { createTodosFromAIRecommendations } from "../utils/todoAutoCreator.js";'
import_line ==
    << "import {", SP, CREATE_TODOS, SP, CLOSE, SP,
       "from \"../utils/todoAutoCreator.js\";" >>

\* The replacement template behind its \1 (lines 33-46).
auto_todo_block ==
    << LF, I4, "// Auto-create todos from AI recommendations",
       LF, I4, "let autoCreatedTodos = [];",
       LF, I4, "try {",
       LF, I6, "autoCreatedTodos = await createTodosFromAIRecommendations(",
       LF, I8, "aiResponse,",
       LF, I8, "savedConversation?.id || conversationId,",
       LF, I8, "status",
       LF, I6, ");",
       LF, I4, CLOSE, SP, "catch (todoError) {",
       LF, I6, "console.error(\"Error auto-creating todos:\", todoError);",
       LF, I6, "// Don't fail the chat response if todo creation fails",
       LF, I4, CLOSE,
       LF >>

old_response ==
    << "res.json({",
       LF, I6, "success: true,",
       LF, I6, "response: {",
       LF, I8, "role: aiResponse.role,",
       LF, I8, "content: aiResponse.content,",
       LF, I8, "timestamp: aiResponse.timestamp,",
       LF, I8, "proposal: aiResponse.proposal || null",
       LF, I6, CLOSE, ",",
       LF, I6, "conversationId: savedConversation?.id," >>

response_fields ==
    << LF, I6, "autoCreatedTodos: autoCreatedTodos,",
       LF, I6, "autoCreatedTodosCount: autoCreatedTodos.length," >>

new_response == old_response \o response_fields

\* The tokens in which the string 'createTodosFromAIRecommendations' lies.
WithCreateTodos ==
    { CREATE_TODOS, "autoCreatedTodos = await createTodosFromAIRecommendations(" }

\* The tokens in which the string 'autoCreatedTodos' lies.
WithAutoCreatedTodos ==
    { AUTO_MENTION, "let autoCreatedTodos = [];",
      "autoCreatedTodos = await createTodosFromAIRecommendations(",
      "autoCreatedTodos: autoCreatedTodos,",
      "autoCreatedTodosCount: autoCreatedTodos.length," }

ChatImportExists == "Import already exists"
ChatImportAdded == "Added import statement"
ChatAutoTodoExists == "Auto-todo code already exists"
ChatAutoTodoAdded == "Added auto-todo creation code"
ChatResponseModified == "Modified response to include autoCreatedTodos"
ChatSuccess == "Successfully modified chat.js to add auto-todo creation!"

\* The pattern r'(savedConversation = \{[^}]+\}\s*\}\s*)' tried at position i:
\* the position of the last token of the match, 0 when there is no match.
\* [^}]+ runs to the first "}" and must take at least one character; the
\* second "}" may be parted from the first by blanks only; the closing \s*
\* takes every blank that follows.
PatternEnd(s, i) ==
    IF s[i] # SC_OPEN THEN 0
    ELSE LET closes == {j \in (i + 1)..Len(s) : s[j] = CLOSE}
         IN  IF closes = {} THEN 0
             ELSE LET j == CHOOSE c \in closes : \A c2 \in closes : c <= c2
                      rest == {k \in (j + 1)..Len(s) : s[k] \notin Blank}
                  IN  IF j = i + 1 \/ rest = {} THEN 0
                      ELSE LET k == CHOOSE r \in rest : \A r2 \in rest : r <= r2
                               after == {e \in (k + 1)..Len(s) : s[e] \notin Blank}
                           IN  IF s[k] # CLOSE THEN 0
                               ELSE IF after = {} THEN Len(s)
                               ELSE (CHOOSE a \in after : \A a2 \in after : a <= a2) - 1

PatternStarts(s) == {i \in 1..Len(s) : PatternEnd(s, i) > 0}

\* re.search(pattern, s) is not None
PatternMatches(s) == PatternStarts(s) # {}

\* re.sub(pattern, replacement, s, count=1): the leftmost match is replaced by
\* itself (group 1 is the whole match) followed by the block.
ReSubAutoTodo(s) ==
    IF ~PatternMatches(s) THEN s
    ELSE LET i == CHOOSE m \in PatternStarts(s) : \A m2 \in PatternStarts(s) : m <= m2
             e == PatternEnd(s, i)
         IN  SubSeq(s, 1, e) \o auto_todo_block \o SubSeq(s, e + 1, Len(s))

(***************************************************************************)
(* add-suggestions-state.py: the literals.                                 *)
(***************************************************************************)
insert_at == 574

state_line == << "  const [suggestionsData, setSuggestionsData] = useState(null);", LF >>

\* f"Added suggestions state at line {insert_at + 1}"
SuggestionsSuccess == "Added suggestions state at line 575"

(***************************************************************************)
(* rename-components.py: the literals.  Each pattern of the list is a line *)
(* number prefix and a declaration; the declarations end in a backquote,   *)
(* which a string of this module cannot hold and the tokens leave out.     *)
(***************************************************************************)
replacements ==
    << << "1999:", "const CompetitorCard = styled.div", "const CompetitorKeywordCard = styled.div" >>,
       << "2012:", "const CompetitorCardHeader = styled.div", "const CompetitorKeywordCardHeader = styled.div" >>,
       << "2019:", "const CompetitorName = styled.h4", "const CompetitorKeywordName = styled.h4" >>,
       << "2025:", "const CompetitorBadge = styled.span", "const CompetitorKeywordBadge = styled.span" >>,
       << "2038:", "const CompetitorMetric = styled.div", "const CompetitorKeywordMetric = styled.div" >>,
       << "2049:", "const CompetitorMetricLabel = styled.span", "const CompetitorKeywordMetricLabel = styled.span" >>,
       << "2054:", "const CompetitorMetricValue = styled.span", "const CompetitorKeywordMetricValue = styled.span" >> >>

\* re.sub(r'(prefix)(declaration)', r'\1renamed', s): every occurrence of the
\* prefix directly followed by the declaration keeps the prefix and gets the
\* renamed declaration.
ReSubDeclaration(s, r) ==
    [k \in 1..Len(s) |->
        IF k > 1 /\ s[k - 1] = r[1] /\ s[k] = r[2] THEN r[3] ELSE s[k]]

\* for pattern, replacement in replacements: content_new = re.sub(...)
RECURSIVE ApplyReplacements(_, _)
ApplyReplacements(s, n) ==
    IF n = 0 THEN s
    ELSE ReSubDeclaration(ApplyReplacements(s, n - 1), replacements[n])

\* The declarations of the list found in s.
DeclarationsIn(s) ==
    {n \in 1..Len(replacements) :
        Occurs(<<replacements[n][1], replacements[n][2]>>, s)}

RenameSuccess == "Components renamed successfully!"

(***************************************************************************)
(* The scripts, their target files and the documents the model starts      *)
(* from: every concatenation of at most MaxPieces pieces, a piece being a  *)
(* locator of the script, a near miss of one, a line terminator or some    *)
(* other text.  The dashboard documents are long enough for line 574: a    *)
(* document of n lines with one line terminator throughout, with or        *)
(* without a terminator on its last line, with or without a declaration    *)
(* rename-components.py looks for on its first line.                       *)
(***************************************************************************)
REVENUE == "add-revenue-router.py"
CATEGORIES == "fix-categories.py"
HELPERS == "add_helpers.py"
CHAT == "edit-chat.py"
SUGGESTIONS == "add-suggestions-state.py"
RENAME == "rename-components.py"
NONE == "none"

OTHER_TEXT == "x"

RevenuePieces ==
    { old_import, <<IMP_SEARCHADS, CRLF, IMP_STORAGE>>, <<IMP_SEARCHADS>>,
      old_route, <<LF>>, <<CRLF>>, <<OTHER_TEXT>> }

CategoriesPieces ==
    { <<CAT_ROMANCE>>, <<CAT_DRAMA>>, <<LF>>, <<CRLF>>, <<CR>>, <<OTHER_TEXT>> }

HelpersPieces ==
    { marker, <<"const handleVideoPreview = (post) => {">>, <<LF>>, <<CRLF>>,
      <<OTHER_TEXT>> }

ChatPieces ==
    { <<SC_OPEN, LF, OTHER_TEXT, LF, CLOSE, LF, CLOSE, LF>>, old_response,
      <<SC_OPEN>>, <<CLOSE>>, <<LF>>, <<OTHER_TEXT>>, <<AUTO_MENTION>>,
      <<CREATE_TODOS>> }

DashText(j) == IF j % 3 = 0 THEN "a" ELSE IF j % 3 = 1 THEN "b" ELSE "c"

DashDoc(n, eol, fin, loc) ==
    LET len == IF n = 0 THEN 0 ELSE IF fin THEN 2 * n ELSE 2 * n - 1
        base == [k \in 1..len |-> IF k % 2 = 0 THEN eol ELSE DashText((k - 1) \div 2)]
    IN  IF loc /\ n > 0
        THEN <<replacements[1][1], replacements[1][2]>> \o SubSeq(base, 2, len)
        ELSE SubSeq(base, 1, len)

DashLens == (0..Slack) \cup ((insert_at - Slack)..(insert_at + Slack))

DashDocs ==
    {DashDoc(n, eol, fin, loc) :
        n \in DashLens, eol \in {LF, CRLF, CR}, fin \in BOOLEAN, loc \in BOOLEAN}

Docs(s) ==
    CASE s = REVENUE -> {d \in Concats(RevenuePieces, MaxPieces) : Canonical(d)}
      [] s = CATEGORIES -> {d \in Concats(CategoriesPieces, MaxPieces) : Canonical(d)}
      [] s = HELPERS -> {d \in Concats(HelpersPieces, MaxPieces) : Canonical(d)}
      [] s = CHAT -> {d \in Concats(ChatPieces, MaxPieces) : Canonical(d)}
      [] OTHER -> DashDocs

Scripts == {REVENUE, CATEGORIES, HELPERS, CHAT, SUGGESTIONS, RENAME}

(***************************************************************************)
(* State after construction: one operator, who runs one script up to       *)
(* MaxRuns times in a row on its target file.                              *)
(***************************************************************************)
Idle == [p \in Procs |-> "idle"]
Empty == [p \in Procs |-> <<>>]
Nothing == [p \in Procs |-> {}]

Init ==
    /\ platform \in {"posix", "nt"}
    /\ \E s \in Scripts :
          /\ script = [p \in Procs |-> IF p = 1 THEN s ELSE NONE]
          /\ orig \in Docs(s)
    /\ file = orig
    /\ pc = Idle
    /\ content = Empty
    /\ lines = Empty
    /\ out = Empty
    /\ applied = Nothing
    /\ present = Nothing
    /\ runs = [p \in Procs |-> IF p = 1 THEN MaxRuns ELSE 0]
    /\ overlap = FALSE
    /\ runlog = <<>>

(***************************************************************************)
(* Steps shared by the scripts.                                            *)
(***************************************************************************)
Running(p) == pc[p] \notin {"idle", "done", "raised"}

\* The interpreter is started on script s and the script opens its file.
Launch(p, s) ==
    /\ script[p] = s
    /\ ~Running(p)
    /\ runs[p] > 0
    /\ runs' = [runs EXCEPT ![p] = @ - 1]
    /\ overlap' = (overlap \/ \E q \in Procs \ {p} : Running(q))
    /\ out' = [out EXCEPT ![p] = <<>>]
    /\ applied' = [applied EXCEPT ![p] = {}]
    /\ present' = [present EXCEPT ![p] = {}]

\* The record of a finished run.
Finished(p, status, bytes, printed) ==
    [ script |-> script[p], status |-> status, after |-> bytes,
      out |-> printed, applied |-> applied[p], present |-> present[p] ]

\* with open(path, 'w') as f: f.write(text), then the closing print.
WriteBack(p, text, message) ==
    /\ file' = Encode(text, platform)
    /\ out' = [out EXCEPT ![p] = Append(@, message)]
    /\ pc' = [pc EXCEPT ![p] = "done"]
    /\ runlog' = Append(runlog,
                    Finished(p, "done", Encode(text, platform), Append(out[p], message)))

(***************************************************************************)
(* add-revenue-router.py                                                   *)
(***************************************************************************)
RevenueRead(p) ==
    /\ Launch(p, REVENUE)
    /\ content' = [content EXCEPT ![p] = Decode(file)]
    /\ pc' = [pc EXCEPT ![p] = "read"]
    /\ UNCHANGED <<platform, script, orig, file, lines, runlog>>

RevenueReplace(p) ==
    /\ script[p] = REVENUE
    /\ pc[p] = "read"
    /\ LET c1 == StrReplace(content[p], old_import, new_import)
           c2 == StrReplace(c1, old_route, new_route)
           found == (IF Occurs(old_import, content[p]) THEN {"import"} ELSE {})
                       \cup (IF Occurs(old_route, c1) THEN {"route"} ELSE {})
       IN  /\ content' = [content EXCEPT ![p] = c2]
           /\ applied' = [applied EXCEPT ![p] = found]
           /\ present' = [present EXCEPT ![p] = found]
    /\ pc' = [pc EXCEPT ![p] = "edited"]
    /\ UNCHANGED <<platform, script, orig, file, lines, out, runs, overlap, runlog>>

\* The write made only when both locators matched, a failure line otherwise.
RevenueWriteIfComplete(p) ==
    /\ script[p] = REVENUE
    /\ pc[p] = "edited"
    /\ IF applied[p] = {"import", "route"}
       THEN WriteBack(p, content[p], RevenueSuccess)
       ELSE /\ out' = [out EXCEPT ![p] = Append(@, "Locator not found")]
            /\ pc' = [pc EXCEPT ![p] = "done"]
            /\ runlog' = Append(runlog,
                            Finished(p, "done", file, Append(out[p], "Locator not found")))
            /\ UNCHANGED file
    /\ UNCHANGED <<platform, script, orig, content, lines, applied, present,
                   runs, overlap>>

RevenueWrite(p) ==
    /\ script[p] = REVENUE
    /\ pc[p] = "edited"
    /\ WriteBack(p, content[p], RevenueSuccess)
    /\ UNCHANGED <<platform, script, orig, content, lines, applied, present,
                   runs, overlap>>

(***************************************************************************)
(* fix-categories.py                                                       *)
(***************************************************************************)
CategoriesRead(p) ==
    /\ Launch(p, CATEGORIES)
    /\ content' = [content EXCEPT ![p] = Decode(file)]
    /\ pc' = [pc EXCEPT ![p] = "read"]
    /\ UNCHANGED <<platform, script, orig, file, lines, runlog>>

CategoriesReplace(p) ==
    /\ script[p] = CATEGORIES
    /\ pc[p] = "read"
    /\ LET c1 == StrReplace(content[p], <<CAT_ROMANCE>>, <<CAT_CONTEMPORARY>>)
           c2 == StrReplace(c1, <<CAT_DRAMA>>, <<CAT_BILLIONAIRE>>)
           found == (IF Occurs(<<CAT_ROMANCE>>, content[p]) THEN {"romance"} ELSE {})
                       \cup (IF Occurs(<<CAT_DRAMA>>, c1) THEN {"drama"} ELSE {})
       IN  /\ content' = [content EXCEPT ![p] = c2]
           /\ applied' = [applied EXCEPT ![p] = found]
           /\ present' = [present EXCEPT ![p] = found]
    /\ pc' = [pc EXCEPT ![p] = "edited"]
    /\ UNCHANGED <<platform, script, orig, file, lines, out, runs, overlap, runlog>>

CategoriesWrite(p) ==
    /\ script[p] = CATEGORIES
    /\ pc[p] = "edited"
    /\ WriteBack(p, content[p], CategoriesSuccess)
    /\ UNCHANGED <<platform, script, orig, content, lines, applied, present,
                   runs, overlap>>

(***************************************************************************)
(* add_helpers.py                                                          *)
(***************************************************************************)
HelpersRead(p) ==
    /\ Launch(p, HELPERS)
    /\ content' = [content EXCEPT ![p] = Decode(file)]
    /\ pc' = [pc EXCEPT ![p] = "read"]
    /\ UNCHANGED <<platform, script, orig, file, lines, runlog>>

\* if marker in content: replace, write, report
HelpersInsert(p) ==
    /\ script[p] = HELPERS
    /\ pc[p] = "read"
    /\ Occurs(marker, content[p])
    /\ LET new_content == StrReplace(content[p], marker, helper_code \o marker)
       IN  /\ content' = [content EXCEPT ![p] = new_content]
           /\ file' = Encode(new_content, platform)
           /\ runlog' = Append(runlog,
                 [ script |-> HELPERS, status |-> "done",
                   after |-> Encode(new_content, platform),
                   out |-> <<HelpersSuccess>>, applied |-> {"helpers"},
                   present |-> {"helpers"} ])
    /\ applied' = [applied EXCEPT ![p] = {"helpers"}]
    /\ present' = [present EXCEPT ![p] = {"helpers"}]
    /\ out' = [out EXCEPT ![p] = <<HelpersSuccess>>]
    /\ pc' = [pc EXCEPT ![p] = "done"]
    /\ UNCHANGED <<platform, script, orig, lines, runs, overlap>>

\* else: report, the file is not opened for writing
HelpersMarkerNotFound(p) ==
    /\ script[p] = HELPERS
    /\ pc[p] = "read"
    /\ ~Occurs(marker, content[p])
    /\ out' = [out EXCEPT ![p] = <<HelpersFailure>>]
    /\ pc' = [pc EXCEPT ![p] = "done"]
    /\ runlog' = Append(runlog, Finished(p, "done", file, <<HelpersFailure>>))
    /\ UNCHANGED <<platform, script, orig, file, content, lines, applied,
                   present, runs, overlap>>

(***************************************************************************)
(* edit-chat.py                                                            *)
(***************************************************************************)
ChatRead(p) ==
    /\ Launch(p, CHAT)
    /\ content' = [content EXCEPT ![p] = Decode(file)]
    /\ pc' = [pc EXCEPT ![p] = "read"]
    /\ UNCHANGED <<platform, script, orig, file, lines, runlog>>

\* The import step without its guard (the line is inserted on every run).
ImportGuardMissing(s) == FALSE

\* if 'createTodosFromAIRecommendations' in content
ImportGuard(s) == HasToken(WithCreateTodos, s)

\* Lines 12-19: the import line goes to index 2 of the lines unless its
\* name is in the text already.
ChatImport(p) ==
    /\ script[p] = CHAT
    /\ pc[p] = "read"
    /\ IF ImportGuard(content[p])
       THEN /\ out' = [out EXCEPT ![p] = Append(@, ChatImportExists)]
            /\ UNCHANGED <<content, applied>>
       ELSE /\ content' = [content EXCEPT ![p] =
                               Join(ListInsert(Split(@), 2, import_line))]
            /\ applied' = [applied EXCEPT ![p] = @ \cup {"import"}]
            /\ out' = [out EXCEPT ![p] = Append(@, ChatImportAdded)]
    /\ pc' = [pc EXCEPT ![p] = "imported"]
    /\ UNCHANGED <<platform, script, orig, file, lines, present, runs, overlap, runlog>>

\* The guard looking for 'autoCreatedTodosCount', which only the response
\* fields hold.
AutoTodoGuardCountOnly(s) ==
    HasToken({"autoCreatedTodosCount: autoCreatedTodos.length,"}, s)

\* if 'autoCreatedTodos' in content
AutoTodoGuard(s) == HasToken(WithAutoCreatedTodos, s)

\* Lines 23-76: unless 'autoCreatedTodos' is in the text, the block goes
\* behind the first match of the pattern and the two fields behind every
\* occurrence of the response literal; both messages are printed.
ChatAutoTodo(p) ==
    /\ script[p] = CHAT
    /\ pc[p] = "imported"
    /\ IF AutoTodoGuard(content[p])
       THEN /\ out' = [out EXCEPT ![p] = Append(@, ChatAutoTodoExists)]
            /\ present' = [present EXCEPT ![p] =
                  (IF PatternMatches(content[p]) THEN {"block"} ELSE {})
                     \cup (IF Occurs(old_response, content[p]) THEN {"fields"} ELSE {})]
            /\ UNCHANGED <<content, applied>>
       ELSE LET c1 == ReSubAutoTodo(content[p])
                c2 == StrReplace(c1, old_response, new_response)
                found == (IF PatternMatches(content[p]) THEN {"block"} ELSE {})
                            \cup (IF Occurs(old_response, c1) THEN {"fields"} ELSE {})
            IN  /\ content' = [content EXCEPT ![p] = c2]
                /\ applied' = [applied EXCEPT ![p] = @ \cup found]
                /\ present' = [present EXCEPT ![p] = found]
                /\ out' = [out EXCEPT ![p] =
                              @ \o <<ChatAutoTodoAdded, ChatResponseModified>>]
    /\ pc' = [pc EXCEPT ![p] = "edited"]
    /\ UNCHANGED <<platform, script, orig, file, lines, runs, overlap, runlog>>

ChatWrite(p) ==
    /\ script[p] = CHAT
    /\ pc[p] = "edited"
    /\ WriteBack(p, content[p], ChatSuccess)
    /\ UNCHANGED <<platform, script, orig, content, lines, applied, present,
                   runs, overlap>>

(***************************************************************************)
(* add-suggestions-state.py                                                *)
(***************************************************************************)
SuggestionsRead(p) ==
    /\ Launch(p, SUGGESTIONS)
    /\ lines' = [lines EXCEPT ![p] = ReadLines(Decode(file))]
    /\ pc' = [pc EXCEPT ![p] = "read"]
    /\ UNCHANGED <<platform, script, orig, file, content, runlog>>

SuggestionsInsert(p) ==
    /\ script[p] = SUGGESTIONS
    /\ pc[p] = "read"
    /\ lines' = [lines EXCEPT ![p] = ListInsert(@, insert_at, state_line)]
    /\ applied' = [applied EXCEPT ![p] = {"state"}]
    /\ pc' = [pc EXCEPT ![p] = "edited"]
    /\ UNCHANGED <<platform, script, orig, file, content, out, present, runs,
                   overlap, runlog>>

SuggestionsWrite(p) ==
    /\ script[p] = SUGGESTIONS
    /\ pc[p] = "edited"
    /\ WriteBack(p, WriteLines(lines[p]), SuggestionsSuccess)
    /\ UNCHANGED <<platform, script, orig, content, lines, applied, present,
                   runs, overlap>>

(***************************************************************************)
(* rename-components.py                                                    *)
(***************************************************************************)
RenameRead(p) ==
    /\ Launch(p, RENAME)
    /\ content' = [content EXCEPT ![p] = Decode(file)]
    /\ pc' = [pc EXCEPT ![p] = "read"]
    /\ UNCHANGED <<platform, script, orig, file, lines, runlog>>

\* Lines 21-23: the declarations are renamed in content_new.
RenameDeclarations(p) ==
    /\ script[p] = RENAME
    /\ pc[p] = "read"
    /\ content' = [content EXCEPT ![p] = ApplyReplacements(@, Len(replacements))]
    /\ applied' = [applied EXCEPT ![p] = DeclarationsIn(content[p])]
    /\ present' = [present EXCEPT ![p] = DeclarationsIn(content[p])]
    /\ pc' = [pc EXCEPT ![p] = "edited"]
    /\ UNCHANGED <<platform, script, orig, file, lines, out, runs, overlap, runlog>>

\* Line 26: the pattern r'<CompetitorCard([^>]*key={index}' opens a group it
\* never closes; re.sub compiles it first and raises re.error ("missing ),
\* unterminated subpattern"), whatever content_new holds.  The script ends
\* there: lines 27-45, the write and the print among them, are not run.
RenameJsxUsage(p) ==
    /\ script[p] = RENAME
    /\ pc[p] = "edited"
    /\ pc' = [pc EXCEPT ![p] = "raised"]
    /\ runlog' = Append(runlog, Finished(p, "raised", file, out[p]))
    /\ UNCHANGED <<platform, script, orig, file, content, lines, out, applied,
                   present, runs, overlap>>

(***************************************************************************)
(* The specification of one operator running one script repeatedly.        *)
(***************************************************************************)
Next ==
    \E p \in Procs :
        \/ RevenueRead(p) \/ RevenueReplace(p) \/ RevenueWrite(p)
        \/ CategoriesRead(p) \/ CategoriesReplace(p) \/ CategoriesWrite(p)
        \/ HelpersRead(p) \/ HelpersInsert(p) \/ HelpersMarkerNotFound(p)
        \/ ChatRead(p) \/ ChatImport(p) \/ ChatAutoTodo(p) \/ ChatWrite(p)
        \/ SuggestionsRead(p) \/ SuggestionsInsert(p) \/ SuggestionsWrite(p)
        \/ RenameRead(p) \/ RenameDeclarations(p) \/ RenameJsxUsage(p)

Spec == Init /\ [][Next]_vars

(***************************************************************************)
(* The specification of two processes started once each, at any time, on   *)
(* frontend/src/pages/StrategicDashboard.jsx: each runs one of the two     *)
(* scripts that target it.  Nothing orders their steps.                    *)
(***************************************************************************)
InitConc ==
    /\ platform \in {"posix", "nt"}
    /\ script \in [Procs -> {SUGGESTIONS, RENAME}]
    /\ orig \in DashDocs
    /\ file = orig
    /\ pc = Idle
    /\ content = Empty
    /\ lines = Empty
    /\ out = Empty
    /\ applied = Nothing
    /\ present = Nothing
    /\ runs = [p \in Procs |-> 1]
    /\ overlap = FALSE
    /\ runlog = <<>>

NextConc ==
    \E p \in Procs :
        \/ SuggestionsRead(p) \/ SuggestionsInsert(p) \/ SuggestionsWrite(p)
        \/ RenameRead(p) \/ RenameDeclarations(p) \/ RenameJsxUsage(p)

SpecConc == InitConc /\ [][NextConc]_vars

(***************************************************************************)
(* Properties.  Under Spec the runs are serial, so the file a run read is  *)
(* the file the run before it left.                                        *)
(***************************************************************************)
Before(k) == IF k = 1 THEN orig ELSE runlog[k - 1].after

Range(s) == {s[k] : k \in 1..Len(s)}

AutoTodoEdits == {"block", "fields"}

\* new holds x at 0-based position i, the i items of old before it unchanged
\* and every later item of old one place further, in the same order.
InsertedAt(old, new, i, x) ==
    /\ Len(new) = Len(old) + 1
    /\ i + 1 <= Len(new)
    /\ new[i + 1] = x
    /\ \A j \in 1..Len(old) : IF j <= i THEN new[j] = old[j] ELSE new[j + 1] = old[j]

\* C1: add-revenue-router.py on a server.js that holds the searchAds route
\* line exactly once leaves that line directly followed by the revenue route
\* line exactly once, and a second run on its own output changes nothing.
C1_RevenueSecondRunIsNoOp ==
    (script[1] = REVENUE /\ Count(Decode(orig), old_route) = 1) =>
        /\ Len(runlog) >= 1 => Count(Decode(runlog[1].after), new_route) = 1
        /\ Len(runlog) >= 2 => runlog[2].after = runlog[1].after

\* C2: edit-chat.py is idempotent: for every document the file after any
\* later run equals the file after the first run, and each of its three
\* edits (import line, auto-todo block, response fields) is made by at most
\* one run.
C2_ChatIdempotent ==
    script[1] = CHAT =>
        /\ \A k \in 2..Len(runlog) : runlog[k].after = runlog[1].after
        /\ \A e \in {"import", "block", "fields"} :
              Cardinality({k \in 1..Len(runlog) : e \in runlog[k].applied}) <= 1

\* C2 witness: a first run of edit-chat.py made an edit and a second run has
\* finished.
C2_Witness ==
    /\ script[1] = CHAT
    /\ Len(runlog) >= 2
    /\ "block" \in runlog[1].applied
    /\ "import" \in runlog[1].applied

\* C3: a run of add-revenue-router.py, fix-categories.py, add_helpers.py or
\* rename-components.py that finds none of its locators in the file leaves
\* the file identical to what it was, line terminators included.
C3_NoOpOnNonMatch ==
    \A k \in 1..Len(runlog) :
        (runlog[k].script \in {REVENUE, CATEGORIES, HELPERS, RENAME}
            /\ runlog[k].present = {}) => runlog[k].after = Before(k)

\* C4: a run never prints its success line for an edit whose locator did not
\* match, unless a guard found the edit in place already: a run of
\* add-revenue-router.py or fix-categories.py with an unmatched locator does
\* not print the success line, and edit-chat.py does not print "Added
\* auto-todo creation code" when its pattern did not match.
C4_FailureReported ==
    \A k \in 1..Len(runlog) :
        LET r == runlog[k]
        IN  /\ (r.script = REVENUE /\ r.applied # {"import", "route"}) =>
                  RevenueSuccess \notin Range(r.out)
            /\ (r.script = CATEGORIES /\ r.applied # {"romance", "drama"}) =>
                  CategoriesSuccess \notin Range(r.out)
            /\ (r.script = CHAT /\ "block" \notin r.applied) =>
                  ChatAutoTodoAdded \notin Range(r.out)

\* The lines a run of add-suggestions-state.py read and the lines of the file
\* it wrote.
LinesBefore(k) == ReadLines(Decode(Before(k)))
LinesAfter(k) == ReadLines(Decode(runlog[k].after))

\* The first n lines of l end in a line terminator.
Terminated(l, n) == \A j \in 1..n : l[j][Len(l[j])] = LF

\* C5 as stated: for every document, add-suggestions-state.py writes a
\* document of one more line with the useState line at 0-based position
\* insert_at, the lines before it unchanged and the lines after it shifted by
\* one; likewise the import line of edit-chat.py at index 2 of the split
\* document.
C5_InsertAtIndexAnyDocument ==
    /\ \A k \in 1..Len(runlog) :
          runlog[k].script = SUGGESTIONS =>
              LET old == LinesBefore(k)
                  new == LinesAfter(k)
              IN  InsertedAt(old, new, insert_at, state_line)
    /\ \A p \in Procs :
          (script[p] = CHAT /\ pc[p] = "imported" /\ "import" \in applied[p]) =>
              InsertedAt(Split(Decode(file)), Split(content[p]), 2, import_line)

\* C5 amended: the same for every document of at least insert_at lines whose
\* first insert_at lines end in a line terminator (lines taken as text mode
\* reads them), and for the import line of edit-chat.py on every document of
\* at least 2 lines.
C5_InsertAtIndexLongEnough ==
    /\ \A k \in 1..Len(runlog) :
          runlog[k].script = SUGGESTIONS =>
              LET old == LinesBefore(k)
                  new == LinesAfter(k)
              IN  (Len(old) >= insert_at /\ Terminated(old, insert_at)) =>
                      /\ InsertedAt(old, new, insert_at, state_line)
                      /\ runlog[k].out = <<SuggestionsSuccess>>
    /\ \A p \in Procs :
          (script[p] = CHAT /\ pc[p] = "imported" /\ "import" \in applied[p]) =>
              LET old == Split(Decode(file))
                  new == Split(content[p])
              IN  Len(old) >= 2 => InsertedAt(old, new, 2, import_line)

\* C5 witness: add-suggestions-state.py has finished on a document of more
\* than insert_at lines.
C5_Witness ==
    /\ script[1] = SUGGESTIONS
    /\ Len(runlog) >= 1
    /\ Len(LinesBefore(1)) > insert_at
    /\ Len(LinesAfter(1)) = Len(LinesBefore(1)) + 1

\* C6: every run of every script goes through to its last statement and ends
\* normally with its status line printed; no run ends in an exception.
C6_RunsToCompletion ==
    \A k \in 1..Len(runlog) :
        /\ runlog[k].status = "done"
        /\ Len(runlog[k].out) >= 1

\* The edit of process p is in the file: the useState line once per run of
\* add-suggestions-state.py, the renamed declaration where the document held
\* the declaration.
EditKept(p) ==
    IF script[p] = SUGGESTIONS
    THEN Count(Decode(file), state_line)
            >= Cardinality({q \in Procs : script[q] = SUGGESTIONS})
    ELSE 1 \in DeclarationsIn(Decode(orig)) =>
            Occurs(<<replacements[1][1], replacements[1][3]>>, Decode(file))

BothFinished == \A p \in Procs : pc[p] \in {"done", "raised"}

\* C7 (serial half): when the two processes ran one after the other, the
\* final file holds the edits of both.
C7_SerialRunsKeepBothEdits ==
    (BothFinished /\ ~overlap) => \A p \in Procs : EditKept(p)

\* C7 (concurrent half): two runs of add-suggestions-state.py both read
\* before either wrote, and the final file holds one useState line only.
C7_LostUpdate ==
    /\ BothFinished
    /\ overlap
    /\ \A p \in Procs : script[p] = SUGGESTIONS
    /\ Count(Decode(file), state_line) = 1

\* C8: a run of add-revenue-router.py or edit-chat.py in which exactly one of
\* the two locators matched has written the file with that edit alone and has
\* printed what a run prints in which both matched.
C8_PartialApplicationUndetected ==
    \A k \in 1..Len(runlog) :
        LET r == runlog[k]
            was == Decode(Before(k))
            now == Decode(r.after)
        IN  /\ (r.script = REVENUE /\ "import" \in r.applied /\ "route" \in r.applied) =>
                  r.out = <<RevenueSuccess>>
            /\ (r.script = REVENUE /\ r.applied = {"route"}) =>
                  /\ r.out = <<RevenueSuccess>>
                  /\ Count(now, new_route) = Count(was, old_route)
                  /\ CountTokens({IMP_REVENUE}, now) = CountTokens({IMP_REVENUE}, was)
                  /\ r.after # Before(k)
            /\ (r.script = REVENUE /\ r.applied = {"import"}) =>
                  /\ r.out = <<RevenueSuccess>>
                  /\ Count(now, new_import) = Count(was, old_import)
                  /\ CountTokens({ROUTE_REVENUE}, now) = CountTokens({ROUTE_REVENUE}, was)
                  /\ r.after # Before(k)
            /\ (r.script = CHAT /\ r.applied \cap AutoTodoEdits # {}) =>
                  SubSeq(r.out, 2, 4) = <<ChatAutoTodoAdded, ChatResponseModified, ChatSuccess>>
            /\ (r.script = CHAT /\ r.applied \cap AutoTodoEdits = {"block"}) =>
                  /\ Count(now, auto_todo_block) = 1
                  /\ Count(now, response_fields) = 0
            /\ (r.script = CHAT /\ r.applied \cap AutoTodoEdits = {"fields"}) =>
                  /\ Count(now, auto_todo_block) = 0
                  /\ Count(now, new_response) = Count(now, old_response)
                  /\ Count(now, new_response) >= 1

\* C8 witness: a finished run of add-revenue-router.py in which the route
\* locator matched and the import locator did not.
C8_Witness ==
    \E k \in 1..Len(runlog) :
        /\ runlog[k].script = REVENUE
        /\ runlog[k].applied = {"route"}
        /\ runlog[k].status = "done"

\* C9: on a ContentLibrary.jsx that holds the marker line, the first run of
\* add_helpers.py puts the helper block once directly before the marker and a
\* second run on the patched file changes nothing.
C9_HelpersGuardedAgainstReinsertion ==
    (script[1] = HELPERS /\ Count(Decode(orig), marker) = 1) =>
        /\ Len(runlog) >= 1 => Count(Decode(runlog[1].after), helper_code \o marker) = 1
        /\ Len(runlog) >= 2 => runlog[2].after = runlog[1].after

\* C10: a run of edit-chat.py that made exactly one of the two guarded edits
\* leaves 'autoCreatedTodos' in the file; every later run takes the guard,
\* makes neither edit and leaves the file as it is.  Whenever the text holds
\* 'autoCreatedTodos' a run makes neither edit, also when a locator is there.
C10_HalfAppliedIsPermanent ==
    script[1] = CHAT =>
        \A k \in 1..Len(runlog) :
            LET r == runlog[k]
                half == Cardinality(r.applied \cap AutoTodoEdits) = 1
            IN  /\ half => AutoTodoGuard(Decode(r.after))
                /\ half => \A m \in (k + 1)..Len(runlog) :
                              /\ runlog[m].applied \cap AutoTodoEdits = {}
                              /\ ChatAutoTodoExists \in Range(runlog[m].out)
                              /\ runlog[m].after = r.after
                /\ AutoTodoGuard(Decode(Before(k))) =>
                      /\ r.applied \cap AutoTodoEdits = {}
                      /\ ChatAutoTodoExists \in Range(r.out)

\* C10 witness: a run made the response-field edit alone, and a later run has
\* finished.
C10_Witness ==
    /\ script[1] = CHAT
    /\ Len(runlog) >= 2
    /\ runlog[1].applied \cap AutoTodoEdits = {"fields"}

====
